---- MODULE Spec2Model ----
(***************************************************************************)
(* Model of smartprom.py: device discovery (get_drives), the three         *)
(* protocol extractors (smart_sat, smart_nvme, smart_scsi), the sweep      *)
(* (collect) and the scheduler loop (main).                                *)
(*                                                                         *)
(* Strings are sequences of one-character strings, so that str.replace,    *)
(* str.lower, hex and int are computed and not assumed.  A device path is  *)
(* a sequence of path pieces in which "/dev/" is one piece.  Time is       *)
(* counted in ticks of SLEEP_SECONDS; the clocks saturate at Cap.          *)
(***************************************************************************)
EXTENDS Integers, Sequences, FiniteSets, TLC

\* ---------------------------------------------------------------- bounds
MaxScan == 2          \* entries in the output of smartctl --scan-open
ScanEvery == 2        \* SCAN_EVERY_SECONDS, in ticks of SLEEP_SECONDS
MaxRunTicks == 1      \* longest duration of one smartctl invocation, in ticks
MaxRows == 2          \* rows of the attribute table that smart_sat is called on
MaxFields == 2        \* fields of the document that smart_scsi or smart_nvme is called on
MaxKey == 2           \* characters of the key whose metric name is derived

Cap == ScanEvery + 1  \* a clock at Cap reads "Cap or more"

Min(a, b) == IF a < b THEN a ELSE b

Adv(c, d) == Min(c + d, Cap)

\* ------------------------------------------------------------ str methods
\* str.replace(old, new) for a one-character old
RECURSIVE Replace(_, _, _)
Replace(s, old, new) ==
    IF s = <<>> THEN <<>>
    ELSE (IF Head(s) = old THEN new ELSE <<Head(s)>>) \o Replace(Tail(s), old, new)

UpperCase == <<"A", "B", "C", "D", "E", "F", "G", "H", "I", "J", "K", "L", "M",
               "N", "O", "P", "Q", "R", "S", "T", "U", "V", "W", "X", "Y", "Z">>
LowerCase == <<"a", "b", "c", "d", "e", "f", "g", "h", "i", "j", "k", "l", "m",
               "n", "o", "p", "q", "r", "s", "t", "u", "v", "w", "x", "y", "z">>

LowerChar(c) ==
    IF \E n \in 1..Len(UpperCase) : UpperCase[n] = c
    THEN LowerCase[CHOOSE n \in 1..Len(UpperCase) : UpperCase[n] = c]
    ELSE c

\* str.lower()
Lower(s) == [n \in 1..Len(s) |-> LowerChar(s[n])]

HexDigits == <<"0", "1", "2", "3", "4", "5", "6", "7", "8", "9",
               "a", "b", "c", "d", "e", "f">>

RECURSIVE HexNat(_)
HexNat(n) ==
    IF n < 16 THEN <<HexDigits[n + 1]>>
    ELSE HexNat(n \div 16) \o <<HexDigits[(n % 16) + 1]>>

\* hex(n) of an int
Hex(n) ==
    IF n < 0 THEN <<"-", "0", "x">> \o HexNat(0 - n)
    ELSE <<"0", "x">> \o HexNat(n)

RECURSIVE DecNat(_)
DecNat(n) ==
    IF n < 10 THEN <<HexDigits[n + 1]>>
    ELSE DecNat(n \div 10) \o <<HexDigits[(n % 10) + 1]>>

\* str(n) of a non-negative int, as used by "...{i}".format(i=i)
Str(n) == DecNat(n)

DecDigits == {HexDigits[n] : n \in 1..10}

DigitVal(c) == (CHOOSE n \in 1..10 : HexDigits[n] = c) - 1

\* the digits of an int literal, underscores removed
Digits(tok) == SelectSeq(tok, LAMBDA c : c \in DecDigits)

\* the literal without its sign
Unsigned(tok) ==
    IF tok # <<>> /\ Head(tok) \in {"+", "-"} THEN Tail(tok) ELSE tok

\* int(tok) succeeds: an optional sign, digits, single underscores between digits
IsInt(tok) ==
    LET u == Unsigned(tok) IN
    /\ u # <<>>
    /\ \A n \in 1..Len(u) : u[n] \in DecDigits \cup {"_"}
    /\ u[1] # "_" /\ u[Len(u)] # "_"
    /\ \A n \in 1..(Len(u) - 1) : ~(u[n] = "_" /\ u[n + 1] = "_")

RECURSIVE DigitsVal(_)
DigitsVal(ds) ==
    IF ds = <<>> THEN 0
    ELSE 10 * DigitsVal(SubSeq(ds, 1, Len(ds) - 1)) + DigitVal(ds[Len(ds)])

\* int(tok) of a literal for which IsInt holds
ToInt(tok) ==
    IF tok # <<>> /\ Head(tok) = "-" THEN 0 - DigitsVal(Digits(Unsigned(tok)))
    ELSE DigitsVal(Digits(Unsigned(tok)))

\* --------------------------------------------------------- python values
\* A python value: t is its type, a and b its content (int, bool: a; tuple of
\* two ints: a, b; float: a is its value; str: a is the number it spells when
\* b = 1), sub the items of a list or the <<key, value>> pairs of a dict.
PyInt(n) == [t |-> "int", a |-> n, b |-> 0, sub |-> <<>>]
PyTuple(x, y) == [t |-> "tuple", a |-> x, b |-> y, sub |-> <<>>]
PyFloat(n) == [t |-> "float", a |-> n, b |-> 0, sub |-> <<>>]
PyStr(n, numeric) == [t |-> "str", a |-> n, b |-> IF numeric THEN 1 ELSE 0, sub |-> <<>>]
PyList(items) == [t |-> "list", a |-> 0, b |-> 0, sub |-> items]
PyDict(pairs) == [t |-> "dict", a |-> 0, b |-> 0, sub |-> pairs]
PyNone == [t |-> "none", a |-> 0, b |-> 0, sub |-> <<>>]

\* dict: a sequence of <<key, value>> with distinct keys, in insertion order
HasKey(d, k) == \E n \in 1..Len(d) : d[n][1] = k

Get(d, k) == d[CHOOSE n \in 1..Len(d) : d[n][1] = k][2]

\* Put that keeps the value of a key the dict holds
PutKeepFirst(d, k, v) ==
    IF HasKey(d, k)
    THEN d
    ELSE Append(d, <<k, v>>)

\* d[k] = v
Put(d, k, v) ==
    IF HasKey(d, k)
    THEN [n \in 1..Len(d) |-> IF d[n][1] = k THEN <<k, v>> ELSE d[n]]
    ELSE Append(d, <<k, v>>)

Keys(d) == {d[n][1] : n \in 1..Len(d)}

\* ------------------------------------------------------------ get_drives
DEV == "/dev/"

\* one entry of the "devices" array; open_error: the entry has that field
Entry(name, type, err) == [name |-> name, type |-> type, open_error |-> err]

\* disks without the test of open_error
RECURSIVE disksAll(_, _)
disksAll(devices, n) ==
    IF n = 0 THEN <<>>
    ELSE Put(disksAll(devices, n - 1), devices[n].name, devices[n].type)

\* the loop of get_drives over the first n entries
RECURSIVE disks(_, _)
disks(devices, n) ==
    IF n = 0 THEN <<>>
    ELSE IF devices[n].open_error
         THEN disks(devices, n - 1)
         ELSE Put(disks(devices, n - 1), devices[n].name, devices[n].type)

\* get_drives() on the parsed scan output
get_drives(devices) == disks(devices, Len(devices))

\* drive.replace("/dev/", "")
Label(drive) == SelectSeq(drive, LAMBDA piece : piece # DEV)

\* -------------------------------------------------------------- smart_sat
HEADER == << <<"I", "D", "#">>,
             <<"A", "T", "T", "R", "I", "B", "U", "T", "E", "_", "N", "A", "M", "E">>,
             <<"F", "L", "A", "G">>,
             <<"V", "A", "L", "U", "E">>,
             <<"W", "O", "R", "S", "T">>,
             <<"T", "H", "R", "E", "S", "H">>,
             <<"T", "Y", "P", "E">>,
             <<"U", "P", "D", "A", "T", "E", "D">>,
             <<"W", "H", "E", "N", "_", "F", "A", "I", "L", "E", "D">>,
             <<"R", "A", "W", "_", "V", "A", "L", "U", "E">> >>

RAW == <<"_", "r", "a", "w">>

\* An extractor's result: err when it raised, else its attributes.
Raised == [err |-> TRUE, attrs |-> <<>>]
Returned(attributes) == [err |-> FALSE, attrs |-> attributes]

\* The body of the loop of smart_sat for one line that follows the header.
\* tokens[n + 1] is the python tokens[n].
SatRow(attributes, tokens) ==
    IF Len(tokens) > 3
    THEN IF IsInt(tokens[1]) /\ IsInt(tokens[4])
         THEN LET withValue == Put(attributes, tokens[2],
                                   PyTuple(ToInt(tokens[1]), ToInt(tokens[4])))
              IN  Returned(IF Len(tokens) > 9 /\ IsInt(tokens[10])
                           THEN Put(withValue, tokens[2] \o RAW,
                                    PyTuple(ToInt(tokens[1]), ToInt(tokens[10])))
                           ELSE withValue)
         ELSE Raised
    ELSE Returned(attributes)

\* The loop of smart_sat from line n on; a line is the sequence of its tokens.
RECURSIVE SatLines(_, _, _, _)
SatLines(lines, n, got_header, attributes) ==
    IF n > Len(lines) THEN Returned(attributes)
    ELSE IF lines[n] = <<>> THEN SatLines(lines, n + 1, got_header, attributes)
    ELSE IF lines[n] = HEADER THEN SatLines(lines, n + 1, TRUE, attributes)
    ELSE IF got_header
         THEN LET row == SatRow(attributes, lines[n])
              IN  IF row.err THEN Raised
                  ELSE SatLines(lines, n + 1, got_header, row.attrs)
         ELSE SatLines(lines, n + 1, got_header, attributes)

\* smart_sat(dev) on the text the tool printed
smart_sat(lines) == SatLines(lines, 1, FALSE, <<>>)

\* ------------------------------------------------------------- smart_nvme
NVME_LOG == <<"n", "v", "m", "e", "_", "s", "m", "a", "r", "t", "_",
              "h", "e", "a", "l", "t", "h", "_",
              "i", "n", "f", "o", "r", "m", "a", "t", "i", "o", "n", "_",
              "l", "o", "g">>

TEMPERATURE_SENSOR == <<"t", "e", "m", "p", "e", "r", "a", "t", "u", "r", "e", "_",
                        "s", "e", "n", "s", "o", "r">>

TEMPERATURE_SENSORS == TEMPERATURE_SENSOR \o <<"s">>

\* Sensors with the index of enumerate starting at 0
RECURSIVE SensorsFromZero(_, _, _)
SensorsFromZero(attributes, v, n) ==
    IF n = 0 THEN attributes
    ELSE Put(SensorsFromZero(attributes, v, n - 1), TEMPERATURE_SENSOR \o Str(n - 1), v[n])

\* for i, value in enumerate(v, start=1): attributes["temperature_sensor{i}"] = value
RECURSIVE Sensors(_, _, _)
Sensors(attributes, v, n) ==
    IF n = 0 THEN attributes
    ELSE Put(Sensors(attributes, v, n - 1), TEMPERATURE_SENSOR \o Str(n), v[n])

\* what iterating over a python value yields, when it can be iterated
Iterable(v) == v.t \in {"list", "dict"}

Items(v) ==
    IF v.t = "dict" THEN [n \in 1..Len(v.sub) |-> PyStr(0, FALSE)] ELSE v.sub

\* the loop of smart_nvme over the first n fields of the health log
RECURSIVE NvmeFields(_, _)
NvmeFields(health_info, n) ==
    IF n = 0 THEN Returned(<<>>)
    ELSE LET before == NvmeFields(health_info, n - 1)
             k == health_info[n][1]
             v == health_info[n][2]
         IN  IF before.err THEN Raised
             ELSE IF k = TEMPERATURE_SENSORS
                  THEN IF Iterable(v)
                       THEN Returned(Sensors(before.attrs, Items(v), Len(Items(v))))
                       ELSE Raised
                  ELSE Returned(Put(before.attrs, k, v))

\* smart_nvme(dev) on the document the tool printed
smart_nvme(doc) ==
    IF doc.t = "dict" /\ HasKey(doc.sub, NVME_LOG) /\ Get(doc.sub, NVME_LOG).t = "dict"
    THEN NvmeFields(Get(doc.sub, NVME_LOG).sub, Len(Get(doc.sub, NVME_LOG).sub))
    ELSE Raised

\* ------------------------------------------------------------- smart_scsi
\* the inner loop of smart_scsi over the first n entries of a nested mapping
RECURSIVE ScsiNested(_, _, _, _)
ScsiNested(attributes, key, value, n) ==
    IF n = 0 THEN attributes
    ELSE LET before == ScsiNested(attributes, key, value, n - 1)
         IN  IF value[n][2].t = "int"
             THEN Put(before, key \o <<"_">> \o value[n][1], value[n][2])
             ELSE before

\* ScsiFields without the test of the type of a top-level value
RECURSIVE ScsiFieldsAny(_, _)
ScsiFieldsAny(data, n) ==
    IF n = 0 THEN <<>>
    ELSE LET before == ScsiFieldsAny(data, n - 1)
             key == data[n][1]
             value == data[n][2]
         IN  IF value.t = "dict"
             THEN ScsiNested(before, key, value.sub, Len(value.sub))
             ELSE Put(before, key, value)

\* the loop of smart_scsi over the first n fields of the document
RECURSIVE ScsiFields(_, _)
ScsiFields(data, n) ==
    IF n = 0 THEN <<>>
    ELSE LET before == ScsiFields(data, n - 1)
             key == data[n][1]
             value == data[n][2]
         IN  IF value.t = "dict"
             THEN ScsiNested(before, key, value.sub, Len(value.sub))
             ELSE IF value.t = "int" THEN Put(before, key, value)
             ELSE before

\* smart_scsi(dev) on the document the tool printed
smart_scsi(doc) ==
    IF doc.t = "dict" THEN Returned(ScsiFields(doc.sub, Len(doc.sub))) ELSE Raised

\* ---------------------------------------------------------------- collect
SMARTPROM == <<"s", "m", "a", "r", "t", "p", "r", "o", "m", "_">>

\* Name with "/" replaced by "-"
NameSlashDash(key) ==
    Lower(Replace(Replace(Replace(Replace(key, "-", <<"_">>), " ", <<"_">>),
                          ".", <<>>), "/", <<"-">>))

\* name, lines 194-200
Name(key) ==
    Lower(Replace(Replace(Replace(Replace(key, "-", <<"_">>), " ", <<"_">>),
                          ".", <<>>), "/", <<"_">>))

\* skey, line 206
Skey(key) == SMARTPROM \o Name(key)

\* desc without the replacement of the underscores
DescKept(key) == key

\* desc, line 201
Desc(key) == Replace(key, "_", <<" ">>)

\* hex(values[0]) or hex(values) returns: the argument is an int
HexOk(typ, values) == IF typ = "sat" THEN values.t = "tuple" ELSE values.t = "int"

\* num, lines 202-205
Num(typ, values) == Hex(values.a)

\* the help text f"({num}) {desc}", line 209
Documentation(num, desc) == <<"(">> \o num \o <<")", " ">> \o desc

\* the names the prometheus registry holds: one per Gauge constructed
Registered(M) == {M[k].name : k \in DOMAIN M}

\* Gauge(skey, documentation, LABELS): a gauge without children
Gauge(skey, documentation) == [name |-> skey, help |-> documentation, values |-> <<>>]

\* .labels(label): the child of the label, created at 0 when it is new
Labels(gauge, label) ==
    IF label \in DOMAIN gauge.values THEN gauge
    ELSE [gauge EXCEPT !.values = (label :> 0) @@ gauge.values]

\* float(value) returns, for the value given to .set
FloatOk(value) ==
    \/ value.t \in {"int", "float"}
    \/ value.t = "str" /\ value.b = 1

\* the value given to .set, lines 212-215
SetArg(typ, values) == IF typ = "sat" THEN PyInt(values.b) ELSE values

\* .set(value) on the child of the label
Set(gauge, label, value) == [gauge EXCEPT !.values[label] = value.a]

\* Whether line 193 takes the creation branch.
Missing(M, key) == key \notin DOMAIN M

\* The result of the body of the loop over attrs (lines 193-215) for one key:
\* the registry after it and the exception it raised, if any.  hex() raises
\* TypeError for a value that is not an int, Gauge() raises ValueError
\* (Duplicated timeseries) for a name the registry of prometheus_client
\* holds, and .set raises when float() does, after .labels made the child.
Step(M, raised) == [M |-> M, raised |-> raised]

\* Observe without the test of line 193: a gauge is made for every observation
ObserveRecreate(M, typ, label, key, values) ==
    LET created == (key :> Gauge(Skey(key), Documentation(Num(typ, values), Desc(key)))) @@ M
        M2 == [created EXCEPT ![key] = Labels(created[key], label)]
    IN  IF ~HexOk(typ, values) THEN Step(M, "TypeError")
        ELSE IF ~FloatOk(SetArg(typ, values)) THEN Step(M2, "ValueError")
        ELSE Step([M2 EXCEPT ![key] = Set(M2[key], label, SetArg(typ, values))], "")

Observe(M, typ, label, key, values) ==
    LET created == (key :> Gauge(Skey(key), Documentation(Num(typ, values), Desc(key)))) @@ M
        M1 == IF Missing(M, key) THEN created ELSE M
        M2 == [M1 EXCEPT ![key] = Labels(M1[key], label)]
    IN  IF Missing(M, key) /\ ~HexOk(typ, values) THEN Step(M, "TypeError")
        ELSE IF Missing(M, key) /\ Skey(key) \in Registered(M) THEN Step(M, "Duplicated")
        ELSE IF ~FloatOk(SetArg(typ, values)) THEN Step(M2, "ValueError")
        ELSE Step([M2 EXCEPT ![key] = Set(M2[key], label, SetArg(typ, values))], "")

\* The loop over attrs from its n-th item on; an exception leaves the loop.
RECURSIVE ObserveFrom(_, _, _, _, _)
ObserveFrom(M, typ, label, attrs, n) ==
    IF n > Len(attrs) THEN Step(M, "")
    ELSE LET step == Observe(M, typ, label, attrs[n][1], attrs[n][2])
         IN  IF step.raised # "" THEN step
             ELSE ObserveFrom(step.M, typ, label, attrs, n + 1)

\* ----------------------------------------------------------------- inputs
\* What run() gets from one smartctl invocation: the exit status and the
\* output, as lines of tokens (smartctl -A) or as the document json.loads
\* makes of it (--json=c).
Exit(rc, out) == [rc |-> rc, out |-> out]

SDA == <<DEV, "sda">>
NVME0 == <<DEV, "nvme0">>
BUS0 == <<DEV, "bus", "/", "0">>

\* the entries smartctl --scan-open may list
ScanEntries ==
    { Entry(SDA, "sat", FALSE), Entry(SDA, "sat", TRUE), Entry(SDA, "scsi", FALSE),
      Entry(NVME0, "nvme", FALSE), Entry(BUS0, "megaraid,0", FALSE) }

ScanOutputs == UNION {[1..n -> ScanEntries] : n \in 0..MaxScan}

ScanExits == {Exit(1, <<>>)} \cup {Exit(0, devices) : devices \in ScanOutputs}

\* a row of the attribute table, from its ID#, ATTRIBUTE_NAME, VALUE and RAW_VALUE
Row(id, name, value, raw) ==
    <<id, name, <<"0", "x", "3", "2">>, value, value, <<"0">>,
      <<"O", "l", "d">>, <<"A", "l", "w", "a", "y", "s">>, <<"-">>, raw>>

P_O == <<"P", "_", "O">>
T_C == <<"T", "-", "C">>
p_o == <<"p", "_", "o">>

Banner == << <<"s", "m", "a", "r", "t", "c", "t", "l">>, <<"7">> >>

SatExits ==
    << Exit(4, <<>>),
       Exit(0, <<Banner, <<>>, HEADER,
                 Row(<<"9">>, P_O, <<"1", "0", "0">>, <<"1", "2">>),
                 Row(<<"1", "9", "4">>, T_C, <<"5", "0">>, <<"-">>)>>),
       Exit(0, <<HEADER, Row(<<"9">>, P_O, <<"9", "9">>, <<"1", "3">>)>>) >>

NvmeExits ==
    << Exit(2, <<>>),
       Exit(0, PyDict(<< <<NVME_LOG, PyDict(<<
                            <<TEMPERATURE_SENSORS, PyList(<<PyInt(30), PyInt(31)>>)>>,
                            <<p_o, PyInt(5)>> >>)>> >>)),
       Exit(0, PyDict(<<>>)) >>

ScsiExits ==
    << Exit(2, <<>>),
       Exit(0, PyDict(<< <<<<"t">>, PyDict(<< <<<<"c">>, PyInt(30)>>,
                                              <<<<"u">>, PyStr(0, FALSE)>> >>)>>,
                         <<p_o, PyInt(7)>>,
                         <<<<"s">>, PyStr(0, FALSE)>> >>)),
       Exit(0, PyDict(<< <<p_o, PyInt(8)>> >>)) >>

\* the paths a scan output lists: in an entry without open_error, and in one with
Listed(devices) ==
    [recorded |-> {devices[n].name : n \in {m \in 1..Len(devices) : ~devices[m].open_error}},
     refusing |-> {devices[n].name : n \in {m \in 1..Len(devices) : devices[m].open_error}}]

\* ------------------------------------------------------------------ state
VARIABLES
    pc,          \* where the process is: "import", "crashed", "main", "collect", "tick", "sleep"
    scan,        \* what the scan invocation returned
    listed,      \* the paths it listed without and with open_error
    DRIVES,      \* the global DRIVES
    METRICS,     \* the global METRICS
    i,           \* the position of the loop of collect in DRIVES
    initial,     \* collect was called from line 227
    elapsed,     \* time.time() - start_time
    sinceStart,  \* the time since the last call of collect
    sinceEnd,    \* the time since the first collect returned, until the second is called
    outcome,     \* per drive, what the last pass of the loop of collect did with it
    tried,       \* per drive, the number of times the current sweep took it
    retried,     \* the current sweep took a drive whose extractor raised in the sweep before
    ran,         \* the drives an extractor has called run() for
    dups,        \* the names Gauge() was called for while they were registered
    arg,         \* the argument of a function that is called on its own
    ret          \* what that function returned

vars == <<pc, scan, listed, DRIVES, METRICS, i, initial, elapsed, sinceStart, sinceEnd,
          outcome, tried, retried, ran, dups, arg, ret>>

Drives == {DRIVES[n][1] : n \in 1..Len(DRIVES)}

NotYet == [st |-> "none", attrs |-> <<>>]

Init ==
    /\ pc = "import"
    /\ scan = Exit(0, <<>>)
    /\ listed = Listed(<<>>)
    /\ DRIVES = <<>>
    /\ METRICS = <<>>
    /\ i = 0
    /\ initial = FALSE
    /\ elapsed = 0
    /\ sinceStart = 0
    /\ sinceEnd = 0
    /\ outcome = <<>>
    /\ tried = <<>>
    /\ retried = FALSE
    /\ ran = {}
    /\ dups = {}
    /\ arg = <<>>
    /\ ret = <<>>

\* run(), lines 52-63: raises when the exit status is not 0
RunRaises(exit) == exit.rc # 0

\* Line 93, DRIVES = get_drives() when the module is loaded.  An exception of
\* run() is not caught and ends the process.
Import ==
    /\ pc = "import"
    /\ UNCHANGED <<arg, ret>>
    /\ \E exit \in ScanExits :
        /\ scan' = exit
        /\ listed' = Listed(exit.out)
        /\ IF RunRaises(exit)
           THEN pc' = "crashed" /\ UNCHANGED DRIVES
           ELSE pc' = "main" /\ DRIVES' = get_drives(exit.out)
    /\ outcome' = [d \in {DRIVES'[n][1] : n \in 1..Len(DRIVES')} |-> NotYet]
    /\ tried' = [d \in {DRIVES'[n][1] : n \in 1..Len(DRIVES')} |-> 0]
    /\ UNCHANGED <<METRICS, i, initial, elapsed, sinceStart, sinceEnd, retried, ran, dups>>

\* the entry of collect()
EnterCollect ==
    /\ pc' = "collect"
    /\ i' = 1
    /\ sinceStart' = 0
    /\ tried' = [d \in Drives |-> 0]
    /\ retried' = FALSE

\* Lines 226-227: start_http_server, then the first collect().  The output of
\* the scan was a local of get_drives and is gone; listed keeps its paths.
Main ==
    /\ pc = "main"
    /\ UNCHANGED <<arg, ret, listed>>
    /\ EnterCollect
    /\ initial' = TRUE
    /\ scan' = Exit(0, <<>>)
    /\ UNCHANGED <<DRIVES, METRICS, elapsed, sinceEnd, outcome, ran, dups>>

\* the branches of lines 177-189
Supported(typ) == typ \in {"sat", "nvme", "scsi"}

Exits(typ) ==
    CASE typ = "sat" -> SatExits
      [] typ = "nvme" -> NvmeExits
      [] typ = "scsi" -> ScsiExits

\* the extractor of the protocol, on what its run() got
Extract(typ, exit) ==
    IF RunRaises(exit) THEN Raised
    ELSE CASE typ = "sat" -> smart_sat(exit.out)
           [] typ = "nvme" -> smart_nvme(exit.out)
           [] typ = "scsi" -> smart_scsi(exit.out)

\* What one pass of the loop of collect did: the registry after it, how it
\* ended ("skip", "fail", "error", "ok"), the attributes the extractor
\* returned and the exception of the registry, if any.
Pass(M, st, attrs, raised) == [M |-> M, st |-> st, attrs |-> attrs, raised |-> raised]

\* Try with an except clause that drops the values of the drive
TryReset(M, drive, typ, exit) ==
    LET res == Extract(typ, exit)
        obs == ObserveFrom(M, typ, Label(drive), res.attrs, 1)
        reset == [k \in DOMAIN M |->
                     [M[k] EXCEPT !.values =
                         [l \in DOMAIN M[k].values \ {Label(drive)} |-> M[k].values[l]]]]
    IN  IF res.err THEN Pass(reset, "fail", <<>>, "")
        ELSE Pass(obs.M, IF obs.raised = "" THEN "ok" ELSE "error", res.attrs, obs.raised)

\* Lines 176-219 for a drive of a supported type: the try block and its
\* except clause, which logs and goes on.
Try(M, drive, typ, exit) ==
    LET res == Extract(typ, exit)
        obs == ObserveFrom(M, typ, Label(drive), res.attrs, 1)
    IN  IF res.err THEN Pass(M, "fail", <<>>, "")
        ELSE Pass(obs.M, IF obs.raised = "" THEN "ok" ELSE "error", res.attrs, obs.raised)

\* Advance that takes a drive again when its extractor raised
AdvanceRetry(n, st) == IF st = "fail" THEN n ELSE n + 1

\* the for statement of line 175 takes the next item
Advance(n, st) == n + 1

\* the name Gauge() refused for being registered, when the pass ended so
Refused(M, typ, pass) ==
    IF pass.raised = "Duplicated"
    THEN {Skey(pass.attrs[CHOOSE n \in 1..Len(pass.attrs) :
                 /\ pass.attrs[n][1] \notin DOMAIN pass.M
                 /\ \A m \in 1..(n - 1) : pass.attrs[m][1] \in DOMAIN pass.M][1])}
    ELSE {}

\* Lines 176-219 for the drive at i, taken as a drive of type typ; the
\* invocation of smartctl takes ticks.
RunDrive(typ) ==
    \E n \in 1..Len(Exits(typ)), ticks \in 0..MaxRunTicks :
        LET drive == DRIVES[i][1]
            pass == Try(METRICS, drive, typ, Exits(typ)[n])
        IN  /\ METRICS' = pass.M
            /\ outcome' = [outcome EXCEPT ![drive] = [st |-> pass.st, attrs |-> pass.attrs]]
            /\ tried' = [tried EXCEPT ![drive] = Min(@ + 1, 2)]
            /\ retried' = (retried \/ outcome[drive].st = "fail")
            /\ ran' = ran \cup {drive}
            /\ dups' = dups \cup Refused(METRICS, typ, pass)
            /\ i' = Advance(i, pass.st)
            /\ elapsed' = Adv(elapsed, ticks)
            /\ sinceStart' = Adv(sinceStart, ticks)
            /\ sinceEnd' = IF initial THEN Adv(sinceEnd, ticks) ELSE sinceEnd

\* CollectSkip with an else branch that falls back to smart_scsi
CollectSkipAsScsi ==
    /\ pc = "collect"
    /\ UNCHANGED <<arg, ret, listed>>
    /\ i <= Len(DRIVES)
    /\ ~Supported(DRIVES[i][2])
    /\ RunDrive("scsi")
    /\ UNCHANGED <<pc, scan, DRIVES, initial>>

\* One pass of the loop of collect, lines 175-219, for a drive of an
\* unsupported type: a warning and continue.
CollectSkip ==
    /\ pc = "collect"
    /\ UNCHANGED <<arg, ret, listed>>
    /\ i <= Len(DRIVES)
    /\ ~Supported(DRIVES[i][2])
    /\ outcome' = [outcome EXCEPT ![DRIVES[i][1]] = [st |-> "skip", attrs |-> <<>>]]
    /\ tried' = [tried EXCEPT ![DRIVES[i][1]] = Min(@ + 1, 2)]
    /\ i' = Advance(i, "skip")
    /\ UNCHANGED <<pc, scan, DRIVES, METRICS, initial, elapsed, sinceStart, sinceEnd,
                   retried, ran, dups>>

\* One pass of the loop of collect, lines 175-219, for a drive of a supported
\* type.
CollectDrive ==
    /\ pc = "collect"
    /\ UNCHANGED <<arg, ret, listed>>
    /\ i <= Len(DRIVES)
    /\ Supported(DRIVES[i][2])
    /\ RunDrive(DRIVES[i][2])
    /\ UNCHANGED <<pc, scan, DRIVES, initial>>

\* CollectReturn of a collect that raises, past main, the exception of a drive
CollectReturnRaise ==
    /\ pc = "collect"
    /\ UNCHANGED <<arg, ret, listed>>
    /\ i > Len(DRIVES)
    /\ i' = 0
    /\ sinceEnd' = IF initial THEN 0 ELSE sinceEnd
    /\ IF \E d \in Drives : outcome[d].st \in {"fail", "error"}
       THEN pc' = "crashed" /\ UNCHANGED elapsed
       ELSE IF initial
            THEN pc' = "tick" /\ elapsed' = 0
            ELSE pc' = "sleep" /\ UNCHANGED elapsed
    /\ UNCHANGED <<scan, DRIVES, METRICS, initial, sinceStart, outcome, tried, retried,
                   ran, dups>>

\* collect() returns: to line 229, start_time = time.time(), from the first
\* call, and to line 235 from the calls of the loop.
CollectReturn ==
    /\ pc = "collect"
    /\ UNCHANGED <<arg, ret, listed>>
    /\ i > Len(DRIVES)
    /\ i' = 0
    /\ sinceEnd' = IF initial THEN 0 ELSE sinceEnd
    /\ IF initial
       THEN pc' = "tick" /\ elapsed' = 0
       ELSE pc' = "sleep" /\ UNCHANGED elapsed
    /\ UNCHANGED <<scan, DRIVES, METRICS, initial, sinceStart, outcome, tried, retried,
                   ran, dups>>

\* Due with the comparison >=
DueAtLeast(elapsed_time) == elapsed_time >= ScanEvery

\* the test of line 232
Due(elapsed_time) == elapsed_time > ScanEvery

\* Tick without line 233: start_time stays what it was
TickKeepStart ==
    /\ pc = "tick"
    /\ UNCHANGED <<arg, ret, listed>>
    /\ IF Due(elapsed)
       THEN /\ UNCHANGED elapsed
            /\ EnterCollect
            /\ initial' = FALSE
       ELSE /\ pc' = "sleep"
            /\ UNCHANGED <<elapsed, i, sinceStart, tried, retried, initial>>
    /\ UNCHANGED <<scan, DRIVES, METRICS, sinceEnd, outcome, ran, dups>>

\* Lines 231-234: the test of the loop, and the next collect() when it is due.
Tick ==
    /\ pc = "tick"
    /\ UNCHANGED <<arg, ret, listed>>
    /\ IF Due(elapsed)
       THEN /\ elapsed' = 0
            /\ EnterCollect
            /\ initial' = FALSE
       ELSE /\ pc' = "sleep"
            /\ UNCHANGED <<elapsed, i, sinceStart, tried, retried, initial>>
    /\ UNCHANGED <<scan, DRIVES, METRICS, sinceEnd, outcome, ran, dups>>

\* Line 235: time.sleep(SLEEP_SECONDS), one tick.
Sleep ==
    /\ pc = "sleep"
    /\ UNCHANGED <<arg, ret, listed>>
    /\ pc' = "tick"
    /\ elapsed' = Adv(elapsed, 1)
    /\ sinceStart' = Adv(sinceStart, 1)
    /\ sinceEnd' = IF initial THEN Adv(sinceEnd, 1) ELSE sinceEnd
    /\ UNCHANGED <<scan, DRIVES, METRICS, i, initial, outcome, tried, retried, ran, dups>>

Next ==
    \/ Import
    \/ Main
    \/ CollectSkip
    \/ CollectDrive
    \/ CollectReturn
    \/ Tick
    \/ Sleep

Spec == Init /\ [][Next]_vars

\* ----------------------------------------------------------------- claims
\* no sweep is running and at least one has returned
SweepDone == pc \in {"tick", "sleep"}

TypeOf(d) == Get(DRIVES, d)

\* the extractor of d returned its attributes in the last pass for d
Healthy(d) == outcome[d].st \in {"ok", "error"}

\* the number collect gives to .set for an attribute
Observation(d, values) == SetArg(TypeOf(d), values).a

\* METRICS holds attribute n of what the extractor of d returned, under the label of d
IsSet(d, n) ==
    LET key == outcome[d].attrs[n][1] IN
    /\ key \in DOMAIN METRICS
    /\ Label(d) \in DOMAIN METRICS[key].values
    /\ METRICS[key].values[Label(d)] = Observation(d, outcome[d].attrs[n][2])

AllSet(d) == \A n \in 1..Len(outcome[d].attrs) : IsSet(d, n)

\* C1: when the extractor of one drive fails in a sweep, every drive has been
\* taken by that sweep when it returns, and every attribute of every drive
\* whose extractor returned is set in METRICS under the label of that drive.
C1_FaultIsolation ==
    (SweepDone /\ \E d \in Drives : outcome[d].st = "fail")
        => \A d \in Drives : tried[d] >= 1 /\ (Healthy(d) => AllSet(d))

\* C2: Gauge() is called at most once for a name (skey), METRICS holds at most
\* one gauge of a name, and a key whose name is registered has its value set
\* under the label of the drive that reported it.
C2_ExactlyOnce ==
    /\ dups = {}
    /\ \A k1, k2 \in DOMAIN METRICS : METRICS[k1].name = METRICS[k2].name => k1 = k2
    /\ \A d \in Drives : Healthy(d) =>
         \A n \in 1..Len(outcome[d].attrs) :
            Skey(outcome[d].attrs[n][1]) \in Registered(METRICS) =>
               \E k \in DOMAIN METRICS :
                  /\ METRICS[k].name = Skey(outcome[d].attrs[n][1])
                  /\ Label(d) \in DOMAIN METRICS[k].values
                  /\ METRICS[k].values[Label(d)] = Observation(d, outcome[d].attrs[n][2])

\* C3: when the scan invocation exits non-zero the process does not end: it
\* goes on with no drive.
C3_DiscoverySurvives ==
    (pc # "import" /\ RunRaises(scan)) => (pc # "crashed" /\ DRIVES = <<>>)

\* C4: every attribute the extractor of a drive returned in its last pass has
\* a gauge in METRICS whose value under the label of the drive is the
\* observation of that pass.
C4_EveryAttributeObserved == \A d \in Drives : Healthy(d) => AllSet(d)

\* the paths the scan listed in an entry without open_error
Recorded == listed.recorded

\* the paths the scan listed in an entry with open_error
Refusing == listed.refusing

\* the label values of all gauges
LabelValues == UNION {DOMAIN METRICS[k].values : k \in DOMAIN METRICS}

\* C5, as stated: the path of a scan entry that carries open_error is never a
\* label value of a gauge.
C5_ExcludedNeverLabel == \A d \in Refusing : Label(d) \notin LabelValues

\* C5, amended: a path all of whose scan entries carry open_error is not in
\* DRIVES, no extractor runs for it and its label is on no gauge; every label
\* value of a gauge is the label of a path with an entry without open_error.
C5_OnlyRecordedLabels ==
    /\ \A d \in Refusing \ Recorded :
          d \notin Drives /\ d \notin ran /\ Label(d) \notin LabelValues
    /\ \A l \in LabelValues : \E d \in Recorded : l = Label(d)

C5_Witness ==
    /\ SweepDone
    /\ Refusing \ Recorded # {}
    /\ LabelValues # {}

\* C6: a step never removes a key of METRICS and never changes the name or
\* the help text of the gauge of a key.
C6_AppendOnly ==
    [][\A k \in DOMAIN METRICS :
          /\ k \in DOMAIN METRICS'
          /\ METRICS'[k].name = METRICS[k].name
          /\ METRICS'[k].help = METRICS[k].help]_vars

\* a gauge that two drives have reported with different values, the one whose
\* value is not the one in the help text being the later
C6_Witness ==
    /\ p_o \in DOMAIN METRICS
    /\ DOMAIN METRICS[p_o].values = {Label(SDA), Label(NVME0)}
    /\ METRICS[p_o].help = Documentation(Hex(METRICS[p_o].values[Label(NVME0)]), Desc(p_o))
    /\ METRICS[p_o].values[Label(SDA)] # METRICS[p_o].values[Label(NVME0)]

\* the pass of the loop of collect that a step makes, if it makes one
PassOf(d) == pc = "collect" /\ i <= Len(DRIVES) /\ DRIVES[i][1] = d /\ tried'[d] # tried[d]

\* C7: a pass in which the extractor raises leaves METRICS as it was, and a
\* step that changes METRICS is a pass in which the extractor returned, which
\* changes nothing but the gauges of the keys returned, under the label of
\* its drive.
C7_FailureChangesNothing ==
    [][/\ \A d \in Drives : (PassOf(d) /\ outcome'[d].st = "fail") => METRICS' = METRICS
       /\ METRICS' # METRICS =>
            \E d \in Drives :
               /\ PassOf(d)
               /\ outcome'[d].st \in {"ok", "error"}
               /\ \A k \in DOMAIN METRICS' :
                     \/ k \in DOMAIN METRICS /\ METRICS'[k] = METRICS[k]
                     \/ /\ HasKey(outcome'[d].attrs, k)
                        /\ \A l \in DOMAIN METRICS'[k].values \ {Label(d)} :
                              /\ k \in DOMAIN METRICS
                              /\ l \in DOMAIN METRICS[k].values
                              /\ METRICS'[k].values[l] = METRICS[k].values[l]]_vars

\* a drive whose extractor raised in its last pass shows a value of an
\* earlier sweep
C7_Witness ==
    \E d \in Drives : outcome[d].st = "fail" /\ Label(d) \in LabelValues

\* C8, as stated: at the test of the loop, collect is called when the time
\* since the last call of collect is at least the scan interval.
C8_TriggerAtInterval ==
    [][(pc = "tick" /\ sinceStart >= ScanEvery) => pc' = "collect"]_vars

\* C8, amended: at the test of the loop, collect is called exactly when more
\* than the scan interval has passed since the first collect returned, if no
\* other has been called, and else since the last call of collect.
C8_TriggerAfterInterval ==
    [][pc = "tick" =>
          (pc' = "collect" <=> (IF initial THEN sinceEnd ELSE sinceStart) > ScanEvery)]_vars

\* the second call of the loop has just been made
C8_Witness ==
    pc = "collect" /\ i = 1 /\ sinceStart = 0 /\ ~initial /\ sinceEnd > ScanEvery

\* C9: a sweep takes the drives of DRIVES in order, each once, and has taken
\* each once when it returns, whether or not the extractor of a drive raised
\* in this sweep or in the sweep before.
C9_EachDriveOnce ==
    /\ pc = "collect" =>
          \A n \in 1..Len(DRIVES) : tried[DRIVES[n][1]] = IF n < i THEN 1 ELSE 0
    /\ SweepDone => \A d \in Drives : tried[d] = 1
    /\ \A n, m \in 1..Len(DRIVES) : DRIVES[n][1] = DRIVES[m][1] => n = m

\* a sweep has returned that took a drive whose extractor had raised in the
\* sweep before, and in which an extractor raised
C9_Witness ==
    /\ SweepDone
    /\ Len(DRIVES) > 1
    /\ retried
    /\ \E d \in Drives : outcome[d].st = "fail" /\ tried[d] = 1

\* C10: no extractor runs for a drive of an unsupported type, no gauge has
\* its label, a pass skips it, and the drives after it are taken.
C10_UnsupportedSkipped ==
    \A n \in 1..Len(DRIVES) :
       ~Supported(DRIVES[n][2]) =>
          /\ DRIVES[n][1] \notin ran
          /\ Label(DRIVES[n][1]) \notin LabelValues
          /\ outcome[DRIVES[n][1]].st \in {"none", "skip"}
          /\ (pc = "collect" /\ n < i) => outcome[DRIVES[n][1]].st = "skip"
          /\ SweepDone => \A m \in (n + 1)..Len(DRIVES) : tried[DRIVES[m][1]] = 1

\* a sweep has skipped a drive and set the values of the drive after it
C10_Witness ==
    /\ SweepDone
    /\ Len(DRIVES) = 2
    /\ outcome[DRIVES[1][1]].st = "skip"
    /\ outcome[DRIVES[2][1]].st = "ok"
    /\ Label(DRIVES[2][1]) \in LabelValues

\* ------------------------------------------------- functions on their own
\* the variables of the process, which a function called on its own leaves alone
process == <<scan, listed, DRIVES, METRICS, i, initial, elapsed, sinceStart, sinceEnd,
             outcome, tried, retried, ran, dups>>

\* the state in which the function fn is about to be called on one of inputs
Called(fn, inputs) ==
    /\ pc = fn
    /\ arg \in inputs
    /\ ret = <<>>
    /\ scan = Exit(0, <<>>)
    /\ listed = Listed(<<>>)
    /\ DRIVES = <<>>
    /\ METRICS = <<>>
    /\ i = 0
    /\ initial = FALSE
    /\ elapsed = 0
    /\ sinceStart = 0
    /\ sinceEnd = 0
    /\ outcome = <<>>
    /\ tried = <<>>
    /\ retried = FALSE
    /\ ran = {}
    /\ dups = {}

\* the call of fn returns result
Returns(fn, result) ==
    /\ pc = fn
    /\ pc' = "returned"
    /\ ret' = result
    /\ UNCHANGED <<arg, process>>

\* ---- smart_sat on its own
SatIds == {<<"9">>, <<"1", "0">>}
SatNames == {P_O, T_C}
SatValues == {<<"5", "0">>}
SatRaws == {<<"1", "2">>, <<"-">>}

\* rows of ten tokens, and rows cut after the VALUE column
SatRows ==
    LET full == {Row(id, name, value, raw) :
                    id \in SatIds, name \in SatNames, value \in SatValues, raw \in SatRaws}
    IN  full \cup {SubSeq(row, 1, 4) : row \in full}

\* what smartctl -A prints: a banner, an empty line, the header and the rows
SatInputs ==
    {<<Banner, <<>>, HEADER>> \o rows : rows \in UNION {[1..n -> SatRows] : n \in 0..MaxRows}}

SatInit == Called("smart_sat", SatInputs)

SatCall == Returns("smart_sat", smart_sat(arg))

SpecSat == SatInit /\ [][SatCall]_vars

\* the lines of the table that follow the header and have at least 4 tokens
TableRows(lines) ==
    LET header == CHOOSE n \in 1..Len(lines) :
                     lines[n] = HEADER /\ \A m \in 1..(n - 1) : lines[m] # HEADER
    IN  SelectSeq(SubSeq(lines, header + 1, Len(lines)), LAMBDA line : Len(line) > 3)

\* token 9 of the row parses as an integer
RawParses(row) == Len(row) > 9 /\ IsInt(row[10])

\* C11: for a header followed by rows of at least 4 tokens, smart_sat returns
\* one observation name -> (id, value) per row and, exactly for the rows whose
\* token 9 parses as an integer, one observation name_raw -> (id, raw), and
\* nothing else.
C11_OnePerRow ==
    pc = "returned" =>
        LET rows == TableRows(arg) IN
        /\ ~ret.err
        /\ Len(ret.attrs) =
              Len(rows) + Cardinality({n \in 1..Len(rows) : RawParses(rows[n])})
        /\ \A n \in 1..Len(rows) :
              /\ HasKey(ret.attrs, rows[n][2])
              /\ Get(ret.attrs, rows[n][2]) = PyTuple(ToInt(rows[n][1]), ToInt(rows[n][4]))
              /\ RawParses(rows[n]) <=> HasKey(ret.attrs, rows[n][2] \o RAW)
              /\ RawParses(rows[n]) =>
                    Get(ret.attrs, rows[n][2] \o RAW) =
                       PyTuple(ToInt(rows[n][1]), ToInt(rows[n][10]))

\* ---- smart_scsi on its own
ScsiNames == {<<"a">>, <<"a", "_", "b">>, <<"c">>}

ScsiValues ==
    { PyInt(1), PyStr(0, FALSE), PyFloat(1), PyList(<<PyInt(1)>>),
      PyDict(<< <<<<"b">>, PyInt(2)>> >>),
      PyDict(<< <<<<"b">>, PyStr(0, FALSE)>>, <<<<"c">>, PyInt(3)>> >>),
      PyDict(<< <<<<"b">>, PyDict(<< <<<<"c">>, PyInt(4)>> >>)>> >>) }

\* the documents json.loads returns: objects whose fields have distinct names
ScsiInputs ==
    {PyDict(fields) : fields \in
        {f \in UNION {[1..n -> ScsiNames \X ScsiValues] : n \in 0..MaxFields} :
            \A n, m \in 1..Len(f) : f[n][1] = f[m][1] => n = m}}

ScsiInit == Called("smart_scsi", ScsiInputs)

ScsiCall == Returns("smart_scsi", smart_scsi(arg))

SpecScsi == ScsiInit /\ [][ScsiCall]_vars

\* The integers of a document: <<n, 0>> is the top-level field n, <<n, m>>
\* the entry m of the mapping that is the top-level field n.
ScsiIntegers(data) ==
    {<<n, 0>> : n \in {x \in 1..Len(data) : data[x][2].t = "int"}}
    \cup UNION {{<<n, m>> : m \in {y \in 1..Len(data[n][2].sub) :
                                      data[n][2].sub[y][2].t = "int"}} :
                   n \in {x \in 1..Len(data) : data[x][2].t = "dict"}}

\* the key the claim gives to an integer of the document, and its value
ScsiKey(data, c) ==
    IF c[2] = 0 THEN data[c[1]][1]
    ELSE data[c[1]][1] \o <<"_">> \o data[c[1]][2].sub[c[2]][1]

ScsiValue(data, c) ==
    IF c[2] = 0 THEN data[c[1]][2] ELSE data[c[1]][2].sub[c[2]][2]

\* c comes before e in the document
ScsiBefore(c, e) == c[1] < e[1] \/ (c[1] = e[1] /\ c[2] < e[2])

\* nothing but the integers of the document is in the output
ScsiOnlyIntegers ==
    \A n \in 1..Len(ret.attrs) :
       /\ ret.attrs[n][2].t = "int"
       /\ \E c \in ScsiIntegers(arg.sub) : ScsiKey(arg.sub, c) = ret.attrs[n][1]

\* C12, as stated: the output of smart_scsi holds nothing but integers of the
\* document, and every top-level integer under its field name and every
\* one-level-nested integer under outer_inner, each with its own value.
C12_IntegersKept ==
    pc = "returned" =>
        /\ ~ret.err
        /\ ScsiOnlyIntegers
        /\ \A c \in ScsiIntegers(arg.sub) :
              /\ HasKey(ret.attrs, ScsiKey(arg.sub, c))
              /\ Get(ret.attrs, ScsiKey(arg.sub, c)) = ScsiValue(arg.sub, c)

\* C12, amended: as stated, but an integer has its own value in the output
\* unless a later integer of the document has the same key, and then the
\* output has the value of the last of them.
C12_IntegersKeptLastWins ==
    pc = "returned" =>
        /\ ~ret.err
        /\ ScsiOnlyIntegers
        /\ \A c \in ScsiIntegers(arg.sub) :
              /\ HasKey(ret.attrs, ScsiKey(arg.sub, c))
              /\ (\A e \in ScsiIntegers(arg.sub) :
                     ScsiKey(arg.sub, e) = ScsiKey(arg.sub, c) => ~ScsiBefore(c, e))
                 => Get(ret.attrs, ScsiKey(arg.sub, c)) = ScsiValue(arg.sub, c)

\* a document with a top-level integer, a nested integer and a nested string
C12_Witness ==
    /\ pc = "returned"
    /\ Len(arg.sub) = 2
    /\ arg.sub[1][2] = PyInt(1)
    /\ arg.sub[2][2] = PyDict(<< <<<<"b">>, PyStr(0, FALSE)>>, <<<<"c">>, PyInt(3)>> >>)
    /\ Len(ret.attrs) = 2

\* ---- smart_nvme on its own
NvmeNames == {p_o, TEMPERATURE_SENSOR \o <<"1">>}

NvmeValues == {PyInt(5), PyStr(0, FALSE)}

NvmeSensors == {PyList(<<>>), PyList(<<PyInt(30)>>), PyList(<<PyInt(30), PyInt(31)>>)}

NvmeFieldSet ==
    (NvmeNames \X NvmeValues) \cup ({TEMPERATURE_SENSORS} \X NvmeSensors)

\* the health logs json.loads returns: objects whose fields have distinct names
NvmeLogs ==
    {f \in UNION {[1..n -> NvmeFieldSet] : n \in 0..MaxFields + 1} :
        \A n, m \in 1..Len(f) : f[n][1] = f[m][1] => n = m}

\* the documents: a health log, alone or after another field
NvmeInputs ==
    {PyDict(<< <<NVME_LOG, PyDict(log)>> >>) : log \in NvmeLogs}
    \cup {PyDict(<< <<p_o, PyInt(1)>>, <<NVME_LOG, PyDict(log)>> >>) : log \in NvmeLogs}

NvmeInit == Called("smart_nvme", NvmeInputs)

NvmeCall == Returns("smart_nvme", smart_nvme(arg))

SpecNvme == NvmeInit /\ [][NvmeCall]_vars

\* the health log of the document
HealthLog == Get(arg.sub, NVME_LOG).sub

\* the log has a field temperature_sensors
HasSensors == HasKey(HealthLog, TEMPERATURE_SENSORS)

SensorValues == Get(HealthLog, TEMPERATURE_SENSORS).sub

\* C13, as stated: for a log with temperature_sensors, the output has
\* temperature_sensor{i} with the i-th value for i = 1..N, has no key
\* temperature_sensors, and has every other field under its name with its value.
C13_SensorsExpanded ==
    (pc = "returned" /\ HasSensors) =>
        /\ ~ret.err
        /\ \A n \in 1..Len(SensorValues) :
              /\ HasKey(ret.attrs, TEMPERATURE_SENSOR \o Str(n))
              /\ Get(ret.attrs, TEMPERATURE_SENSOR \o Str(n)) = SensorValues[n]
        /\ ~HasKey(ret.attrs, TEMPERATURE_SENSORS)
        /\ \A n \in 1..Len(HealthLog) :
              HealthLog[n][1] # TEMPERATURE_SENSORS =>
                 /\ HasKey(ret.attrs, HealthLog[n][1])
                 /\ Get(ret.attrs, HealthLog[n][1]) = HealthLog[n][2]

\* the position of temperature_sensors in the log
SensorsAt == CHOOSE n \in 1..Len(HealthLog) : HealthLog[n][1] = TEMPERATURE_SENSORS

\* the field n of the log is named as the expansion names a sensor
NamedAsSensor(n) ==
    \E m \in 1..Len(SensorValues) : HealthLog[n][1] = TEMPERATURE_SENSOR \o Str(m)

\* C13, amended: as stated, but when another field of the log is named
\* temperature_sensor{i} with i in 1..N, the output has under that key the
\* one of the two that comes later in the log.
C13_SensorsExpandedLastWins ==
    (pc = "returned" /\ HasSensors) =>
        /\ ~ret.err
        /\ \A n \in 1..Len(SensorValues) :
              /\ HasKey(ret.attrs, TEMPERATURE_SENSOR \o Str(n))
              /\ (\A m \in (SensorsAt + 1)..Len(HealthLog) :
                     HealthLog[m][1] # TEMPERATURE_SENSOR \o Str(n))
                 => Get(ret.attrs, TEMPERATURE_SENSOR \o Str(n)) = SensorValues[n]
        /\ ~HasKey(ret.attrs, TEMPERATURE_SENSORS)
        /\ \A n \in 1..Len(HealthLog) :
              HealthLog[n][1] # TEMPERATURE_SENSORS =>
                 /\ HasKey(ret.attrs, HealthLog[n][1])
                 /\ (n > SensorsAt \/ ~NamedAsSensor(n))
                    => Get(ret.attrs, HealthLog[n][1]) = HealthLog[n][2]
        /\ Len(ret.attrs) =
              Cardinality(({HealthLog[n][1] : n \in 1..Len(HealthLog)} \ {TEMPERATURE_SENSORS})
                          \cup {TEMPERATURE_SENSOR \o Str(n) : n \in 1..Len(SensorValues)})

\* a log with two sensors and another field
C13_Witness ==
    /\ pc = "returned"
    /\ HasSensors
    /\ Len(SensorValues) = 2
    /\ HasKey(ret.attrs, p_o)
    /\ Get(ret.attrs, TEMPERATURE_SENSOR \o Str(2)) = PyInt(31)

\* ---- the extractors on output that is not of the expected format
\* tables of rows that no header line precedes
SatNoHeader ==
    {<<Banner, <<>>>> \o rows : rows \in UNION {[1..n -> SatRows] : n \in 0..MaxRows}}

\* documents without a health log, or whose health log is not an object
NvmeNoLog ==
    {PyDict(<<>>), PyDict(<< <<p_o, PyInt(1)>> >>),
     PyDict(<< <<NVME_LOG, PyInt(1)>> >>), PyList(<<>>)}

MalformedInit == Called("smart_sat", SatNoHeader) \/ Called("smart_nvme", NvmeNoLog)

SpecMalformed == MalformedInit /\ [][SatCall \/ NvmeCall]_vars

\* C14: on output without the header line (smart_sat) or without the health
\* log (smart_nvme), the extractor fails with an error, which collect handles
\* as it handles a failure of the tool.
C14_MalformedFails == pc = "returned" => ret.err

\* ---- the help text of a gauge
\* the step makes the gauge of key k, in the pass of drive d
Creates(d, k) == PassOf(d) /\ k \notin DOMAIN METRICS /\ k \in DOMAIN METRICS'

\* the text "(" hex(n) ") " and the key with spaces for its underscores
HelpOf(n, k) == <<"(">> \o Hex(n) \o <<")", " ">> \o Replace(k, "_", <<" ">>)

\* C15, as stated: the help text of a gauge embeds the hexadecimal rendering
\* of the value that is set on the gauge on the observation that creates it,
\* followed by the key with spaces for its underscores, for every protocol.
C15_HelpEmbedsFirstValue ==
    [][\A d \in Drives : \A k \in DOMAIN METRICS' :
          Creates(d, k) =>
             /\ Label(d) \in DOMAIN METRICS'[k].values
             /\ METRICS'[k].help = HelpOf(METRICS'[k].values[Label(d)], k)]_vars

\* C15, amended: for nvme and scsi the help text embeds the hexadecimal
\* rendering of the value set on the gauge on the observation that creates
\* it; for sat it embeds that of the ID of the attribute, the first element
\* of the observation, whose second element is the value set.
C15_HelpEmbedsIdOrValue ==
    [][\A d \in Drives : \A k \in DOMAIN METRICS' :
          Creates(d, k) =>
             /\ Label(d) \in DOMAIN METRICS'[k].values
             /\ HasKey(outcome'[d].attrs, k)
             /\ LET values == Get(outcome'[d].attrs, k) IN
                IF TypeOf(d) = "sat"
                THEN /\ METRICS'[k].help = HelpOf(values.a, k)
                     /\ METRICS'[k].values[Label(d)] = values.b
                ELSE /\ METRICS'[k].help = HelpOf(values.a, k)
                     /\ METRICS'[k].values[Label(d)] = values.a
                     /\ values.t = "int"]_vars

\* a gauge made from an ATA attribute and one made from a field of a document
C15_Witness ==
    /\ P_O \in DOMAIN METRICS
    /\ TEMPERATURE_SENSOR \o <<"1">> \in DOMAIN METRICS
    /\ METRICS[P_O].help = HelpOf(9, P_O)
    /\ \E l \in DOMAIN METRICS[P_O].values : METRICS[P_O].values[l] = 99
    /\ METRICS[TEMPERATURE_SENSOR \o <<"1">>].help = HelpOf(30, TEMPERATURE_SENSOR \o <<"1">>)

\* ---- the loop of main, with a scheduler that lets the process run
FairSpec == Spec /\ WF_vars(Next)

\* main has been entered
Started == pc \in {"main", "collect", "tick", "sleep"}

\* C16: from every state in which main runs, whatever the drives did in the
\* sweeps so far, a sweep of the loop starts later on: sweeps occur again and
\* again and the loop of main never ends.
C16_SweepsForever == Started ~> (pc = "collect" /\ i = 1 /\ ~initial)

\* a sweep of the loop starts after one in which the extractor of a drive
\* raised and another drive was of an unsupported type
C16_Witness ==
    /\ pc = "collect"
    /\ i = 1
    /\ ~initial
    /\ \E d \in Drives : outcome[d].st = "skip"
    /\ \E d \in Drives : outcome[d].st = "fail"

\* ---- the name of the gauge collect makes for a key
KeyChars == {"A", "a", "-", " ", ".", "/", "_"}

RawKeys == UNION {[1..n -> KeyChars] : n \in 0..MaxKey}

\* a first observation: its key, the protocol and the label of its drive
NameInputs ==
    [key : RawKeys, typ : {"sat", "nvme", "scsi"}, label : {Label(SDA), Label(NVME0)}]

\* the name of the gauge that lines 193-209 make for a first observation
NameMade(obs) ==
    LET values == IF obs.typ = "sat" THEN PyTuple(1, 2) ELSE PyInt(2)
    IN  Observe(<<>>, obs.typ, obs.label, obs.key, values).M[obs.key].name

NameInit == Called("name", NameInputs)

NameCall == Returns("name", NameMade(arg))

\* the name without its prefix, observed as a key in turn
NameAgain ==
    /\ pc = "returned"
    /\ pc' = "again"
    /\ arg' = [arg EXCEPT !.key = SubSeq(ret, Len(SMARTPROM) + 1, Len(ret))]
    /\ ret' = NameMade(arg')
    /\ UNCHANGED process

SpecName == NameInit /\ [][NameCall \/ NameAgain]_vars

\* the characters lines 194-200 replace or lower
Unclean == {"A", "-", " ", ".", "/"}

\* C17: the name made for a key is the prefix and a text without any of the
\* replaced characters, the same for every protocol and label, and the name
\* made for that text as a key is the same name.
C17_NameIdempotent ==
    /\ pc \in {"returned", "again"} =>
          /\ SubSeq(ret, 1, Len(SMARTPROM)) = SMARTPROM
          /\ \A n \in Len(SMARTPROM) + 1..Len(ret) : ret[n] \notin Unclean
          /\ \A typ \in {"sat", "nvme", "scsi"}, label \in {Label(SDA), Label(NVME0)} :
                ret = NameMade([key |-> arg.key, typ |-> typ, label |-> label])
    /\ pc = "again" => ret = SMARTPROM \o arg.key

\* the name of a key with a replaced character, sanitized again
C17_Witness ==
    /\ pc = "again"
    /\ arg.typ = "sat"
    /\ arg.key = <<"_", "a">>
    /\ ret = SMARTPROM \o <<"_", "a">>

\* ---- the spacing of the sweeps
\* C18: a sweep starts only when none is running, and a sweep of the loop
\* starts no sooner than the scan interval after the start of the sweep
\* before it, the first sweep included, however long the sweeps last.
C18_SweepsSpaced ==
    [][/\ (pc = "collect" /\ pc' = "collect") => (i <= Len(DRIVES) /\ i' = i + 1)
       /\ (pc # "collect" /\ pc' = "collect") =>
             /\ i = 0 /\ i' = 1
             /\ pc = "tick" => sinceStart >= ScanEvery]_vars

\* a sweep of the loop starts after a sweep that ran the extractors of two drives
C18_Witness ==
    /\ pc = "collect"
    /\ i = 1
    /\ ~initial
    /\ sinceStart = 0
    /\ Cardinality(ran) = 2

\* ---- the device set that discovery makes of the scan output
\* the positions of the scan output that list path d without open_error
EntriesOf(d) == {n \in 1..Len(scan.out) : scan.out[n].name = d /\ ~scan.out[n].open_error}

\* the last of a non-empty set of positions
Last(S) == CHOOSE n \in S : \A m \in S : m <= n

\* C19: DRIVES holds each path once, so a sweep takes it at most once; when
\* get_drives has returned, its paths are those the scan lists in an entry
\* without open_error, each with the type of the last such entry, whatever
\* the entries with open_error are and wherever they stand.
C19_PathToProtocol ==
    /\ \A n, m \in 1..Len(DRIVES) : DRIVES[n][1] = DRIVES[m][1] => n = m
    /\ \A d \in Drives : tried[d] <= 1
    /\ pc = "main" =>
          /\ Drives = {scan.out[n].name : n \in {m \in 1..Len(scan.out) : ~scan.out[m].open_error}}
          /\ \A d \in Drives : TypeOf(d) = scan.out[Last(EntriesOf(d))].type

\* the scan lists a path as scsi and then, with open_error, as sat
C19_Witness ==
    /\ pc = "main"
    /\ Len(scan.out) = 2
    /\ scan.out[1] = Entry(SDA, "scsi", FALSE)
    /\ scan.out[2] = Entry(SDA, "sat", TRUE)
    /\ DRIVES = << <<SDA, "scsi">> >>

====
